---------------------------- MODULE Spec2Model ----------------------------
(***************************************************************************)
(* Model of mp4-util's `extract` subcommand                                *)
(* (src/src/subcommand_extract.rs, fn run): time-window resolution per     *)
(* track, the k-way interleave of the track cursors, the running byte      *)
(* offset and the reserve / stream / finalize / patch protocol driven on   *)
(* the muxer.                                                              *)
(*                                                                         *)
(* 64-bit quantities (timestamps, normalized timestamps) are kept at their *)
(* real width.  TLC integers are 32 bit, so a u64 is a tuple of five       *)
(* little-endian limbs of 15 bits (75 bits, the top limb below 16).        *)
(***************************************************************************)
EXTENDS Integers, Sequences, FiniteSets, TLC

-----------------------------------------------------------------------------
(* Bounds of the explored inputs.                                          *)

\* at most this many trak boxes in the input file
MaxTracks == 2
\* samples of a track with small sample durations
SmallSamples == 3
\* samples of a track whose sample durations are near the u32 maximum
WideSamples == 6
\* requested times range over -1..MaxTime, in units of 1/SecDen second
MaxTime == 4
\* a requested end time beyond every track, in units of 1/SecDen second
HugeTime == 2000000000
\* sample payload sizes cycle through 0..SizeCycle-1
SizeCycle == 3

-----------------------------------------------------------------------------
(* u64 arithmetic on limbs.                                                *)

Limb == 32768
LimbCount == 5
TopLimb == 16
ProductLimbs == 7
\* 1_000_000_000 (normalize_timestamp) and its two limbs
NANOS_PER_SECOND == 1000000000
NanosLow == NANOS_PER_SECOND % Limb
NanosHigh == NANOS_PER_SECOND \div Limb

\* the u64 of a TLC integer 0 <= n < 2^31
Wide(n) == << n % Limb, (n \div Limb) % Limb, n \div (Limb * Limb), 0, 0 >>

WideZero == Wide(0)

\* u32::MAX = 4294967295 and u64::MAX as limbs
U32Max == << Limb - 1, Limb - 1, 3, 0, 0 >>
U64Max == << Limb - 1, Limb - 1, Limb - 1, Limb - 1, TopLimb - 1 >>

RECURSIVE CarryFrom(_, _, _)
CarryFrom(raw, i, c) ==
    IF i > Len(raw) THEN << >>
    ELSE LET v == raw[i] + c
         IN  << v % Limb >> \o CarryFrom(raw, i + 1, v \div Limb)

RECURSIVE BorrowFrom(_, _, _, _)
BorrowFrom(a, b, i, br) ==
    IF i > Len(a) THEN << >>
    ELSE LET v == a[i] - b[i] - br
         IN  IF v < 0 THEN << v + Limb >> \o BorrowFrom(a, b, i + 1, 1)
                      ELSE << v >> \o BorrowFrom(a, b, i + 1, 0)

\* a < b
WideLess(a, b) ==
    \E i \in 1..LimbCount :
        /\ a[i] < b[i]
        /\ \A j \in (i + 1)..LimbCount : a[j] = b[j]

WideLeq(a, b) == a = b \/ WideLess(a, b)

\* a + b (no operand of the model comes near 2^64)
WideAdd(a, b) == CarryFrom([i \in 1..LimbCount |-> a[i] + b[i]], 1, 0)

\* a - b for a >= b
WideSub(a, b) == BorrowFrom(a, b, 1, 0)

\* a * m for 0 <= m < Limb, the product below 2^64
WideMulSmall(a, m) == CarryFrom([i \in 1..LimbCount |-> a[i] * m], 1, 0)

RECURSIVE DivFrom(_, _, _, _)
DivFrom(a, m, i, rem) ==
    IF i = 0 THEN << >>
    ELSE LET cur == rem * Limb + a[i]
         IN  DivFrom(a, m, i - 1, cur % m) \o << cur \div m >>

\* floor(a / m) for 0 < m < Limb
WideDivSmall(a, m) == DivFrom(a, m, LimbCount, 0)

\* the exact product a * 1_000_000_000 on ProductLimbs limbs
\* (1_000_000_000 = NanosHigh * 2^15 + NanosLow)
FullMulNanos(a) ==
    LET at(i) == IF i \in 1..LimbCount THEN a[i] ELSE 0
    IN  CarryFrom([i \in 1..ProductLimbs |->
                      at(i) * NanosLow + at(i - 1) * NanosHigh], 1, 0)

\* whether a product on ProductLimbs limbs is 2^64 or more
Overflows64(p) ==
    \/ p[LimbCount] >= TopLimb
    \/ \E i \in (LimbCount + 1)..ProductLimbs : p[i] # 0

\* a product reduced modulo 2^64
Wrap64(p) ==
    [i \in 1..LimbCount |-> IF i = LimbCount THEN p[i] % TopLimb ELSE p[i]]

-----------------------------------------------------------------------------
(* The input: command line and source file.                                *)

\* f64 seconds are dyadic: a numerator over SecDen, exact in an f64
SecDen == 2

\* --start / --end examples, used as the values in help mode
StartExample == 10 * SecDen
EndExample == 30 * SecDen

\* bytes of the source file before the first sample payload
SourceHeaderLen == 1

\* sample durations of the small tracks, with the track's timescale
SmallClocks == { << 1, Wide(1) >>, << 3, Wide(2) >> }
\* sample durations near u32::MAX (4294967295 and 3500000000 ticks)
WideClocks == { << 30, U32Max >>, << 30, WideMulSmall(Wide(1750000000), 2) >> }

\* a trak box: handler, timescale and the sample table (per-sample duration,
\* sync flag, payload size; payload offsets are set when the file is laid out)
TrakBox(handler, timescale, n, dur, first_sync, phase) ==
    [ handler_type |-> handler,
      timescale    |-> timescale,
      durations    |-> [i \in 1..n |-> dur],
      sync         |-> [i \in 1..n |->
                           /\ first_sync > 0
                           /\ i >= first_sync
                           /\ (i - first_sync) % 2 = 0],
      sizes        |-> [i \in 1..n |-> (i + phase) % SizeCycle],
      offsets      |-> [i \in 1..n |-> 0],
      sample_entry |-> << handler, timescale >> ]

\* the trak boxes the inputs are drawn from
TrakShapes ==
    { TrakBox("vide", c[1], SmallSamples, c[2], fs, 0) :
          c \in SmallClocks, fs \in 0..2 }
    \cup { TrakBox("soun", c[1], SmallSamples, c[2], 1, 1) : c \in SmallClocks }
    \cup { TrakBox("soun", c[1], WideSamples, c[2], 1, 1) : c \in WideClocks }
    \cup { TrakBox("vide", 1, 0, Wide(1), 0, 0),
           TrakBox("text", 1, 1, Wide(1), 1, 0) }

RECURSIVE SumTo(_, _)
SumTo(s, k) == IF k = 0 THEN 0 ELSE s[k] + SumTo(s, k - 1)

RECURSIVE PayloadBefore(_, _)
PayloadBefore(traks, j) ==
    IF j = 1 THEN 0
    ELSE PayloadBefore(traks, j - 1)
           + SumTo(traks[j - 1].sizes, Len(traks[j - 1].sizes))

\* the source file's layout: the payloads of trak 1, then of trak 2, ...
LayOut(traks) ==
    [j \in 1..Len(traks) |->
        [traks[j] EXCEPT !.offsets =
            [i \in 1..Len(traks[j].sizes) |->
                SourceHeaderLen + PayloadBefore(traks, j)
                    + SumTo(traks[j].sizes, i - 1)]]]

SourceLen(traks) == SourceHeaderLen + PayloadBefore(traks, Len(traks) + 1)

\* the source file's bytes: every byte differs from its neighbours
SourceBytes(traks) == [p \in 1..SourceLen(traks) |-> 1 + (p % 200)]

\* bytes missing at the end of the source file: none, or (for a file of one
\* trak) the last byte of the last payload
Truncations(traks) == IF Len(traks) = 1 THEN {0, 1} ELSE {0}

TrakLists ==
    UNION { [1..k -> TrakShapes] : k \in 0..MaxTracks }

-----------------------------------------------------------------------------
(* The sample table accessor of the container library.                     *)

sample_count(trak) == Len(trak.durations)

RECURSIVE duration_sum(_, _, _)
\* the durations of samples lo..hi added up (by halves: the evaluation
\* stays shallow for long tracks)
duration_sum(trak, lo, hi) ==
    IF lo > hi THEN WideZero
    ELSE IF lo = hi THEN trak.durations[lo]
    ELSE LET mid == (lo + hi) \div 2
         IN  WideAdd(duration_sum(trak, lo, mid),
                     duration_sum(trak, mid + 1, hi))

\* decode timestamp of sample i: the durations before it added up
timestamp(trak, i) == duration_sum(trak, 1, i - 1)

\* get_sample(index): Some(index) when the sample exists, else None (0)
get_sample(trak, i) == IF i \in 1..sample_count(trak) THEN i ELSE 0

\* get_sample_by_timestamp(t): the sample whose [timestamp, timestamp +
\* duration) holds t, None (0) when there is none
get_sample_by_timestamp(trak, t) ==
    LET covers(i) ==
            /\ WideLeq(timestamp(trak, i), t)
            /\ WideLess(t, WideAdd(timestamp(trak, i), trak.durations[i]))
        hits == { i \in 1..sample_count(trak) : covers(i) }
    IN  IF hits = {} THEN 0 ELSE CHOOSE i \in hits : \A k \in hits : i <= k

\* sync_sample(): the nearest sync sample at or before sample i, None (0)
sync_sample(trak, i) ==
    LET syncs == { k \in 1..i : trak.sync[k] }
    IN  IF syncs = {} THEN 0 ELSE CHOOSE k \in syncs : \A m \in syncs : m <= k

is_sync_sample(trak, i) == trak.sync[i]

-----------------------------------------------------------------------------
(* The muxer of the container library, at its interface.                   *)

\* bytes of the leading boxes before the reserved moov region
MuxerHeadLen == 1
\* the placeholder byte of the reserved region, and the bytes finalize emits
FreeByte == 0
MoovByte == 255
MdatSizeByte == 254

\* estimate_maximum_moov_box_size: grows with every sample of every track
estimate_maximum_moov_box_size(sample_counts) ==
    1 + SumTo(sample_counts, Len(sample_counts))

\* initial_boxes_bytes(): the head boxes and the reserved region
initial_boxes_bytes(m) == [p \in 1..(MuxerHeadLen + m.reserved) |-> FreeByte]

\* offset_and_bytes_pairs() of a finalized muxer: with faststart the moov box
\* goes into the reserved region; without, the mdat size is fixed in the head
\* and the moov box follows the payloads written so far
offset_and_bytes_pairs(m, faststart, file_end) ==
    IF faststart
    THEN << [offset |-> MuxerHeadLen, bytes |-> << MoovByte >>] >>
    ELSE << [offset |-> MuxerHeadLen + m.reserved - 1,
             bytes |-> << MdatSizeByte >>],
            [offset |-> file_end, bytes |-> << MoovByte >>] >>

-----------------------------------------------------------------------------
(* State.                                                                  *)

VARIABLES
    pc,                 \* where run is
    help,               \* args.finish() returned the help text
    start_sec, end_sec, \* --start and --end, in 1/SecDen second
    input_opened,       \* File::open(input) was called and succeeded
    file_data,          \* the bytes read from the input file
    trak_boxes,         \* moov_box.trak_boxes
    trak_pos,           \* position of the `for trak in` loop
    track_infos,        \* Vec<TrackExtractInfo>
    muxer,              \* the Mp4FileMuxer: reservation and appended samples
    output_created,     \* File::create(output) was called and succeeded
    output_file,        \* the bytes of the output file
    current_offset,     \* the running byte offset
    sample_iterators,   \* Vec<SampleIterator>
    pairs,              \* finalized.offset_and_bytes_pairs()
    pair_pos,           \* position of the patch loop
    wraps,              \* an overflowing multiplication has wrapped: the
                        \* build has no overflow checks
    result,             \* what run returned: "running", "ok", "help", an
                        \* error, or "panic"
    completion_printed, \* the completion message was printed
    events,             \* the calls made on the muxer and the output file
    emitted,            \* per appended sample: cursor, sample index, the
                        \* normalized timestamp the scheduler compared
    arg,                \* io.rs: the Option<String> given to from_arg
    allow_tty,          \* io.rs: the flag given to OutputSink::from_arg
    stdin_is_terminal,  \* io::stdin().is_terminal()
    stdout_is_terminal, \* io::stdout().is_terminal()
    source,             \* what InputSource::from_arg returned
    sink                \* what OutputSink::from_arg returned

\* the state of the input / output selection (src/src/io.rs)
io_vars == << arg, allow_tty, stdin_is_terminal, stdout_is_terminal,
              source, sink >>

vars == << pc, help, start_sec, end_sec, input_opened, file_data, trak_boxes,
           trak_pos, track_infos, muxer, output_created, output_file,
           current_offset, sample_iterators, pairs, pair_pos, wraps, result,
           completion_printed, events, emitted, io_vars >>

\* Option::None, and a result not yet computed
None == << "None" >>
NotCalled == << "NotCalled" >>

\* extract does not select its input or output through io.rs
IoIdle ==
    /\ arg = None
    /\ allow_tty = FALSE
    /\ stdin_is_terminal = FALSE
    /\ stdout_is_terminal = FALSE
    /\ source = NotCalled
    /\ sink = NotCalled

NoMuxer == [reserved |-> 0, samples |-> << >>, finalized |-> FALSE]

Init ==
    /\ pc = "args"
    /\ help \in BOOLEAN
    /\ IF help
       THEN start_sec = StartExample /\ end_sec = EndExample
       ELSE /\ start_sec \in -1..MaxTime
            /\ end_sec \in (0..MaxTime) \cup {HugeTime}
    /\ input_opened = FALSE
    /\ file_data = << >>
    /\ trak_boxes = << >>
    /\ trak_pos = 1
    /\ track_infos = << >>
    /\ muxer = NoMuxer
    /\ output_created = FALSE
    /\ output_file = << >>
    /\ current_offset = 0
    /\ sample_iterators = << >>
    /\ pairs = << >>
    /\ pair_pos = 1
    /\ wraps = FALSE
    /\ result = "running"
    /\ completion_printed = FALSE
    /\ events = << >>
    /\ emitted = << >>
    /\ IoIdle

\* every return is Ok(()): an error is swallowed
return_ok_always(r) ==
    /\ pc' = "done"
    /\ result' = "ok"

\* run returns (Ok, Err) or panics: nothing else changes
Return(r) ==
    /\ pc' = "done"
    /\ result' = r

-----------------------------------------------------------------------------
(* Argument handling and validation (lines 46-57).                         *)

PrintHelp ==
    /\ pc = "args"
    /\ help
    /\ Return("help")
    /\ UNCHANGED << io_vars, help, start_sec, end_sec, input_opened, file_data,
                    trak_boxes, trak_pos, track_infos, muxer, output_created,
                    output_file, current_offset, sample_iterators, pairs,
                    pair_pos, wraps, completion_printed, events, emitted >>

\* an end equal to the start is let through
validation_error_lax(start, end) ==
    IF start < 0 THEN "err_start_negative"
    ELSE IF end < start THEN "err_end_not_after_start"
    ELSE "none"

\* the two checks, in the code's order: None when both pass
validation_error(start, end) ==
    IF start < 0 THEN "err_start_negative"
    ELSE IF end <= start THEN "err_end_not_after_start"
    ELSE "none"

Validate ==
    /\ pc = "args"
    /\ ~help
    /\ LET e == validation_error(start_sec, end_sec)
       IN  IF e # "none"
           THEN Return(e)
           ELSE pc' = "validated" /\ result' = result
    /\ UNCHANGED << io_vars, help, start_sec, end_sec, input_opened, file_data,
                    trak_boxes, trak_pos, track_infos, muxer, output_created,
                    output_file, current_offset, sample_iterators, pairs,
                    pair_pos, wraps, completion_printed, events, emitted >>

-----------------------------------------------------------------------------
(* Reading and decoding the input (lines 59-78).                           *)

OpenFails ==
    /\ pc = "validated"
    /\ Return("err_open")
    /\ UNCHANGED << io_vars, help, start_sec, end_sec, input_opened, file_data,
                    trak_boxes, trak_pos, track_infos, muxer, output_created,
                    output_file, current_offset, sample_iterators, pairs,
                    pair_pos, wraps, completion_printed, events, emitted >>

\* read_to_end fails, the decoder rejects the bytes, or there is no moov box
ReadFails ==
    /\ pc = "validated"
    /\ input_opened' = TRUE
    /\ \E e \in {"err_read", "err_decode", "err_no_moov"} : Return(e)
    /\ UNCHANGED << io_vars, help, start_sec, end_sec, file_data,
                    trak_boxes, trak_pos, track_infos, muxer, output_created,
                    output_file, current_offset, sample_iterators, pairs,
                    pair_pos, wraps, completion_printed, events, emitted >>

ReadInput ==
    /\ pc = "validated"
    /\ input_opened' = TRUE
    /\ \E traks \in TrakLists :
          /\ trak_boxes' = LayOut(traks)
          /\ \E cut \in Truncations(traks) :
                file_data' = SubSeq(SourceBytes(traks), 1,
                                    SourceLen(traks) - cut)
    /\ pc' = "windowing"
    /\ UNCHANGED << io_vars, help, start_sec, end_sec, trak_pos, track_infos, muxer,
                    output_created, output_file, current_offset,
                    sample_iterators, pairs, pair_pos, wraps, result,
                    completion_printed, events, emitted >>

-----------------------------------------------------------------------------
(* Window resolution, one trak box per step (lines 80-134).                *)

\* the product rounded to the nearest tick, halves upwards
seconds_to_ticks_rounded(sec, timescale) ==
    WideDivSmall(WideAdd(WideMulSmall(WideMulSmall(Wide(sec), timescale), 2),
                         Wide(SecDen)),
                 2 * SecDen)

\* (sec * timescale as f64) as u64 for sec >= 0: the product, truncated
seconds_to_ticks(sec, timescale) ==
    WideDivSmall(WideMulSmall(Wide(sec), timescale), SecDen)

\* a video start without a sync sample before it falls back to the sample found
adjust_to_keyframe_or_start(trak, start_sample) ==
    IF trak.handler_type = "vide" /\ sync_sample(trak, start_sample) # 0
    THEN sync_sample(trak, start_sample)
    ELSE start_sample

\* the start sample kept as found, also for video
adjust_to_keyframe_skipped(trak, start_sample) == start_sample

\* lines 104-110: a video start moves to its sync sample (0: none, the error)
adjust_to_keyframe(trak, start_sample) ==
    IF trak.handler_type = "vide"
    THEN sync_sample(trak, start_sample)
    ELSE start_sample

\* the end is looked up by time only, without the fallback
find_end_sample_strict(trak, end_timestamp) ==
    get_sample_by_timestamp(trak, end_timestamp)

\* the fallback takes the first sample of the track
find_end_sample_or_first(trak, end_timestamp) ==
    LET by_time == get_sample_by_timestamp(trak, end_timestamp)
    IN  IF by_time # 0 THEN by_time
        ELSE get_sample(trak, 1)

\* lines 113-120: the sample at the end time, else the last sample (0: none)
find_end_sample(trak, end_timestamp) ==
    LET by_time == get_sample_by_timestamp(trak, end_timestamp)
    IN  IF by_time # 0 THEN by_time
        ELSE get_sample(trak, sample_count(trak))

\* the body of the loop for a video or audio trak: an error, or the
\* TrackExtractInfo to push
resolve_window(trak) ==
    LET start_timestamp == seconds_to_ticks(start_sec, trak.timescale)
        end_timestamp == seconds_to_ticks(end_sec, trak.timescale)
        start_sample == get_sample_by_timestamp(trak, start_timestamp)
        actual_start_sample ==
            IF start_sample = 0 THEN 0
            ELSE adjust_to_keyframe(trak, start_sample)
        end_sample == find_end_sample(trak, end_timestamp)
    IN  IF start_sample = 0 THEN [error |-> "err_no_sample_at_start"]
        ELSE IF actual_start_sample = 0
             THEN [error |-> "err_no_preceding_keyframe"]
        ELSE IF end_sample = 0 THEN [error |-> "err_no_sample_at_end"]
        ELSE [ error              |-> "none",
               track_kind         |-> trak.handler_type,
               timescale          |-> trak.timescale,
               sample_entry       |-> trak.sample_entry,
               start_sample_index |-> actual_start_sample,
               end_sample_index   |-> end_sample,
               start_timestamp    |-> timestamp(trak, actual_start_sample),
               trak_box           |-> trak ]

\* the failing trak is skipped and the loop goes on
window_failure_skips(e) ==
    /\ trak_pos' = trak_pos + 1
    /\ UNCHANGED << track_infos, pc, result >>

\* the `?` of lines 101, 107 and 120: run returns the error
window_failure(e) ==
    /\ Return(e)
    /\ UNCHANGED << trak_pos, track_infos >>

SkipTrack ==
    /\ pc = "windowing"
    /\ trak_pos <= Len(trak_boxes)
    /\ trak_boxes[trak_pos].handler_type \notin {"vide", "soun"}
    /\ trak_pos' = trak_pos + 1
    /\ UNCHANGED << io_vars, pc, help, start_sec, end_sec, input_opened, file_data,
                    trak_boxes, track_infos, muxer, output_created,
                    output_file, current_offset, sample_iterators, pairs,
                    pair_pos, wraps, result, completion_printed, events,
                    emitted >>

\* SampleTableAccessor::new rejects the trak's sample table
SampleTableFails ==
    /\ pc = "windowing"
    /\ trak_pos <= Len(trak_boxes)
    /\ trak_boxes[trak_pos].handler_type \in {"vide", "soun"}
    /\ Return("err_sample_table")
    /\ UNCHANGED << io_vars, help, start_sec, end_sec, input_opened, file_data,
                    trak_boxes, trak_pos, track_infos, muxer, output_created,
                    output_file, current_offset, sample_iterators, pairs,
                    pair_pos, wraps, completion_printed, events, emitted >>

ResolveTrack ==
    /\ pc = "windowing"
    /\ trak_pos <= Len(trak_boxes)
    /\ trak_boxes[trak_pos].handler_type \in {"vide", "soun"}
    /\ LET info == resolve_window(trak_boxes[trak_pos])
       IN  IF info.error # "none"
           THEN window_failure(info.error)
           ELSE /\ track_infos' = Append(track_infos, info)
                /\ trak_pos' = trak_pos + 1
                /\ UNCHANGED << pc, result >>
    /\ UNCHANGED << io_vars, help, start_sec, end_sec, input_opened, file_data,
                    trak_boxes, muxer, output_created, output_file,
                    current_offset, sample_iterators, pairs, pair_pos, wraps,
                    completion_printed, events, emitted >>

-----------------------------------------------------------------------------
(* Sizing and muxer creation (lines 136-153).                              *)

\* the count without the + 1
sample_counts_exclusive(infos) ==
    [t \in 1..Len(infos) |->
        infos[t].end_sample_index - infos[t].start_sample_index]

\* (end_sample_index - start_sample_index + 1) per track
sample_counts(infos) ==
    [t \in 1..Len(infos) |->
        infos[t].end_sample_index - infos[t].start_sample_index + 1]

NoTracks ==
    /\ pc = "windowing"
    /\ trak_pos > Len(trak_boxes)
    /\ track_infos = << >>
    /\ Return("err_no_av_track")
    /\ UNCHANGED << io_vars, help, start_sec, end_sec, input_opened, file_data,
                    trak_boxes, trak_pos, track_infos, muxer, output_created,
                    output_file, current_offset, sample_iterators, pairs,
                    pair_pos, wraps, completion_printed, events, emitted >>

CreateMuxer ==
    /\ pc = "windowing"
    /\ trak_pos > Len(trak_boxes)
    /\ track_infos # << >>
    /\ LET reserved_moov_size ==
               estimate_maximum_moov_box_size(sample_counts(track_infos))
       IN  \/ /\ muxer' = [NoMuxer EXCEPT !.reserved = reserved_moov_size]
              /\ pc' = "create"
              /\ result' = result
           \/ /\ Return("err_muxer_init")
              /\ muxer' = muxer
    /\ events' = events \o << "estimate", "with_options" >>
    /\ UNCHANGED << io_vars, help, start_sec, end_sec, input_opened, file_data,
                    trak_boxes, trak_pos, track_infos, output_created,
                    output_file, current_offset, sample_iterators, pairs,
                    pair_pos, wraps, completion_printed, emitted >>

-----------------------------------------------------------------------------
(* Output file and initial boxes (lines 155-178).                          *)

CreateOutput ==
    /\ pc = "create"
    /\ \/ /\ output_created' = TRUE
          /\ pc' = "initial"
          /\ result' = result
       \/ /\ Return("err_create")
          /\ output_created' = output_created
    /\ events' = Append(events, "create")
    /\ UNCHANGED << io_vars, help, start_sec, end_sec, input_opened, file_data,
                    trak_boxes, trak_pos, track_infos, muxer, output_file,
                    current_offset, sample_iterators, pairs, pair_pos, wraps,
                    completion_printed, emitted >>

\* what a failing write_all leaves of `bytes`: nothing, or all but the last byte
FailedWrites(bytes) ==
    { SubSeq(bytes, 1, k) : k \in {0, Len(bytes) - 1} \cap 0..Len(bytes) }

\* the cursors of lines 165-178
new_iterators(infos) ==
    [t \in 1..Len(infos) |->
        [ current_index   |-> infos[t].start_sample_index,
          base_timestamp  |-> infos[t].start_timestamp,
          is_first_sample |-> TRUE ]]

WriteInitial ==
    /\ pc = "initial"
    /\ LET initial_bytes == initial_boxes_bytes(muxer)
       IN  \/ /\ output_file' = initial_bytes
              /\ current_offset' = Len(initial_bytes)
              /\ sample_iterators' = new_iterators(track_infos)
              /\ pc' = "streaming"
              /\ result' = result
           \/ /\ \E part \in FailedWrites(initial_bytes) : output_file' = part
              /\ Return("err_write")
              /\ UNCHANGED << current_offset, sample_iterators >>
    /\ events' = Append(events, "write_initial")
    /\ UNCHANGED << io_vars, help, start_sec, end_sec, input_opened, file_data,
                    trak_boxes, trak_pos, track_infos, muxer, output_created,
                    pairs, pair_pos, wraps, completion_printed, emitted >>

-----------------------------------------------------------------------------
(* The interleave loop (lines 180-242).                                    *)

\* whether timestamp * 1_000_000_000 leaves the u64 range
multiply_overflows(ts) == Overflows64(FullMulNanos(ts))

\* normalize_timestamp, the multiplication wrapping at 2^64
normalize_timestamp(ts, timescale) ==
    WideDivSmall(Wrap64(FullMulNanos(ts)), timescale)

\* the cursor stops one sample before the end of its window
has_next_exclusive(iters, infos, idx) ==
    iters[idx].current_index < infos[idx].end_sample_index

\* line 187: the cursor still has a sample
has_next(iters, infos, idx) ==
    iters[idx].current_index <= infos[idx].end_sample_index

\* sample.timestamp() - iter.base_timestamp of the cursor's next sample
relative_timestamp(iters, infos, idx) ==
    WideSub(timestamp(infos[idx].trak_box, iters[idx].current_index),
            iters[idx].base_timestamp)

next_normalized(iters, infos, idx) ==
    normalize_timestamp(relative_timestamp(iters, infos, idx),
                        infos[idx].timescale)

\* a later cursor replaces the minimum on a tie
replaces_minimum_on_tie(normalized_timestamp, min_timestamp) ==
    WideLeq(normalized_timestamp, min_timestamp)

\* line 196: the comparison that replaces the minimum
replaces_minimum(normalized_timestamp, min_timestamp) ==
    WideLess(normalized_timestamp, min_timestamp)

RECURSIVE scan(_, _, _, _, _)
\* the for loop of lines 186-201 from cursor idx on:
\* << next_track_idx (0: None), min_timestamp >>
scan(iters, infos, idx, next_track_idx, min_timestamp) ==
    IF idx > Len(iters) THEN << next_track_idx, min_timestamp >>
    ELSE IF has_next(iters, infos, idx)
         THEN LET normalized_timestamp == next_normalized(iters, infos, idx)
              IN  IF replaces_minimum(normalized_timestamp, min_timestamp)
                  THEN scan(iters, infos, idx + 1, idx, normalized_timestamp)
                  ELSE scan(iters, infos, idx + 1, next_track_idx,
                            min_timestamp)
         ELSE scan(iters, infos, idx + 1, next_track_idx, min_timestamp)

select_next(iters, infos) == scan(iters, infos, 1, 0, U64Max)

\* some cursor's next normalization overflows the multiplication
scan_overflows(iters, infos) ==
    \E idx \in 1..Len(iters) :
        /\ has_next(iters, infos, idx)
        /\ multiply_overflows(relative_timestamp(iters, infos, idx))

\* the record is built from the offset already advanced past the sample
make_sample_after_advance(iter, info, offset) ==
    [ track_kind   |-> info.track_kind,
      sample_entry |-> IF iter.is_first_sample
                       THEN << "Some", info.sample_entry >>
                       ELSE << "None" >>,
      keyframe     |-> is_sync_sample(info.trak_box, iter.current_index),
      timescale    |-> info.timescale,
      duration     |-> info.trak_box.durations[iter.current_index],
      data_offset  |-> offset + info.trak_box.sizes[iter.current_index],
      data_size    |-> info.trak_box.sizes[iter.current_index] ]

\* the Sample handed to append_sample (lines 222-234)
make_sample(iter, info, offset) ==
    [ track_kind   |-> info.track_kind,
      sample_entry |-> IF iter.is_first_sample
                       THEN << "Some", info.sample_entry >>
                       ELSE << "None" >>,
      keyframe     |-> is_sync_sample(info.trak_box, iter.current_index),
      timescale    |-> info.timescale,
      duration     |-> info.trak_box.durations[iter.current_index],
      data_offset  |-> offset,
      data_size    |-> info.trak_box.sizes[iter.current_index] ]

\* the range taken one byte early
slice_one_early(data, data_offset, data_size) ==
    SubSeq(data, data_offset, data_offset + data_size - 1)

\* line 216: &file_data[data_offset..data_offset + data_size]
slice(data, data_offset, data_size) ==
    SubSeq(data, data_offset + 1, data_offset + data_size)

\* the offset is left where it was
advance_offset_stale(offset, data_size) == offset

\* line 239
advance_offset(offset, data_size) == offset + data_size

\* is_first_sample is not cleared
advance_keeps_first(iter) ==
    [iter EXCEPT !.current_index = iter.current_index + 1]

\* the index steps back (not below 1) instead of forward
advance_backwards(iter) ==
    [iter EXCEPT !.current_index = IF iter.current_index > 1
                                   THEN iter.current_index - 1
                                   ELSE 1,
                 !.is_first_sample = FALSE]

\* lines 240-241 (saturating_add: no index of these tracks is near u32::MAX)
advance(iter) ==
    [iter EXCEPT !.current_index = iter.current_index + 1,
                 !.is_first_sample = FALSE]

\* with overflow checks the multiplication panics
overflow_panic(overflows) ==
    /\ overflows
    /\ ~wraps
    /\ Return("panic")
    /\ UNCHANGED << muxer, output_file, current_offset, sample_iterators,
                    wraps, events, emitted >>

\* break as soon as one cursor is exhausted
loop_exit_on_first_exhausted(sel, overflows) ==
    /\ \E idx \in 1..Len(sample_iterators) :
          ~has_next(sample_iterators, track_infos, idx)
    /\ pc' = "finalize"
    /\ wraps' = (wraps \/ overflows)
    /\ UNCHANGED << muxer, output_file, current_offset, sample_iterators,
                    result, events, emitted >>

\* all cursors are exhausted: break
loop_exit(sel, overflows) ==
    /\ sel[1] = 0
    /\ pc' = "finalize"
    /\ wraps' = (wraps \/ overflows)
    /\ UNCHANGED << muxer, output_file, current_offset, sample_iterators,
                    result, events, emitted >>

\* lines 207-241 for the selected cursor
emit_sample(sel, overflows) ==
    /\ sel[1] # 0
    /\ wraps' = (wraps \/ overflows)
    /\ LET track_idx == sel[1]
           iter == sample_iterators[track_idx]
           info == track_infos[track_idx]
           data_offset == info.trak_box.offsets[iter.current_index]
           data_size == info.trak_box.sizes[iter.current_index]
           sample_data == slice(file_data, data_offset, data_size)
           sample == make_sample(iter, info, current_offset)
       IN  IF data_offset + data_size > Len(file_data)
           THEN \* the slice is out of range
                /\ Return("panic")
                /\ UNCHANGED << output_file, muxer, current_offset,
                                sample_iterators, events, emitted >>
           ELSE \/ \* write_all fails
                   /\ \E part \in FailedWrites(sample_data) :
                         output_file' = output_file \o part
                   /\ Return("err_write")
                   /\ events' = Append(events, "write_sample")
                   /\ UNCHANGED << muxer, current_offset, sample_iterators,
                                   emitted >>
                \/ \* append_sample fails
                   /\ output_file' = output_file \o sample_data
                   /\ Return("err_append_sample")
                   /\ events' = events \o << "write_sample", "append_sample" >>
                   /\ UNCHANGED << muxer, current_offset, sample_iterators,
                                   emitted >>
                \/ /\ output_file' = output_file \o sample_data
                   /\ muxer' = [muxer EXCEPT
                                   !.samples = Append(muxer.samples, sample)]
                   /\ current_offset' = advance_offset(current_offset, data_size)
                   /\ sample_iterators' =
                          [sample_iterators EXCEPT ![track_idx] = advance(iter)]
                   /\ events' = events \o << "write_sample", "append_sample" >>
                   /\ emitted' = Append(emitted,
                          [ track      |-> track_idx,
                            index      |-> iter.current_index,
                            normalized |-> sel[2] ])
                   /\ UNCHANGED << pc, result >>

\* one pass of the loop: the scan, then break, or write and append
Interleave ==
    /\ pc = "streaming"
    /\ LET sel == select_next(sample_iterators, track_infos)
           overflows == scan_overflows(sample_iterators, track_infos)
       IN  \/ overflow_panic(overflows)
           \/ loop_exit(sel, overflows)
           \/ emit_sample(sel, overflows)
    /\ UNCHANGED << io_vars, help, start_sec, end_sec, input_opened, file_data,
                    trak_boxes, trak_pos, track_infos, output_created, pairs,
                    pair_pos, completion_printed >>

-----------------------------------------------------------------------------
(* Finalize and patch (lines 244-281).                                     *)

Finalize ==
    /\ pc = "finalize"
    /\ \/ \E faststart \in BOOLEAN :
             /\ pairs' = offset_and_bytes_pairs(muxer, faststart, current_offset)
             /\ muxer' = [muxer EXCEPT !.finalized = TRUE]
             /\ pc' = "patching"
             /\ result' = result
       \/ /\ Return("err_finalize")
          /\ UNCHANGED << pairs, muxer >>
    /\ events' = Append(events, "finalize")
    /\ UNCHANGED << io_vars, help, start_sec, end_sec, input_opened, file_data,
                    trak_boxes, trak_pos, track_infos, output_created,
                    output_file, current_offset, sample_iterators, pair_pos,
                    wraps, completion_printed, emitted >>

\* `bytes` written at position `offset` of `file` (the file grows as needed)
write_at(file, offset, bytes) ==
    LET end == offset + Len(bytes)
        len == IF end > Len(file) THEN end ELSE Len(file)
    IN  [p \in 1..len |->
            IF p > offset /\ p <= end THEN bytes[p - offset]
            ELSE IF p <= Len(file) THEN file[p]
            ELSE FreeByte]

Patch ==
    /\ pc = "patching"
    /\ pair_pos <= Len(pairs)
    /\ LET pair == pairs[pair_pos]
       IN  \/ /\ output_file' = write_at(output_file, pair.offset, pair.bytes)
              /\ pair_pos' = pair_pos + 1
              /\ events' = events \o << "seek", "write_patch" >>
              /\ UNCHANGED << pc, result >>
           \/ /\ Return("err_seek")
              /\ events' = Append(events, "seek")
              /\ UNCHANGED << output_file, pair_pos >>
           \/ /\ \E part \in FailedWrites(pair.bytes) :
                    output_file' = write_at(output_file, pair.offset, part)
              /\ Return("err_write")
              /\ events' = events \o << "seek", "write_patch" >>
              /\ UNCHANGED pair_pos
    /\ UNCHANGED << io_vars, help, start_sec, end_sec, input_opened, file_data,
                    trak_boxes, trak_pos, track_infos, muxer, output_created,
                    current_offset, sample_iterators, pairs, wraps,
                    completion_printed, emitted >>

\* the completion message, then Ok(())
Complete ==
    /\ pc = "patching"
    /\ pair_pos > Len(pairs)
    /\ completion_printed' = TRUE
    /\ Return("ok")
    /\ UNCHANGED << io_vars, help, start_sec, end_sec, input_opened, file_data,
                    trak_boxes, trak_pos, track_infos, muxer, output_created,
                    output_file, current_offset, sample_iterators, pairs,
                    pair_pos, wraps, events, emitted >>

-----------------------------------------------------------------------------

Next ==
    \/ PrintHelp
    \/ Validate
    \/ OpenFails
    \/ ReadFails
    \/ ReadInput
    \/ SkipTrack
    \/ SampleTableFails
    \/ ResolveTrack
    \/ NoTracks
    \/ CreateMuxer
    \/ CreateOutput
    \/ WriteInitial
    \/ Interleave
    \/ Finalize
    \/ Patch
    \/ Complete

Spec == Init /\ [][Next]_vars

-----------------------------------------------------------------------------
(* End-to-end scenario A: one video track on a time base of 30000 with a   *)
(* sync sample every 30 frames, one audio track on a time base of 48000,   *)
(* --start 10.0 and --end 10.0 + (one video frame + a margin).             *)

VideoTimeBase == 30000
AudioTimeBase == 48000
SyncInterval == 30
\* tracks of 12 seconds
ScenarioLength == 12
\* ticks of a video frame (3 and 1 frames per second), of an audio sample
ScenarioFrameTicks == { 10000, 30000 }
ScenarioAudioTicks == 24000

ScenarioStart == 10 * SecDen

\* one video frame plus a margin, in 1/SecDen second: the next multiple of
\* 1/SecDen after the frame's duration
Epsilon(frame_ticks) == (frame_ticks * SecDen) \div VideoTimeBase + 1

ScenarioVideo(frame_ticks) ==
    LET n == (ScenarioLength * VideoTimeBase) \div frame_ticks
    IN  [ TrakBox("vide", VideoTimeBase, n, Wide(frame_ticks), 1, 0)
              EXCEPT !.sync = [i \in 1..n |-> (i - 1) % SyncInterval = 0] ]

ScenarioAudio ==
    TrakBox("soun", AudioTimeBase,
            (ScenarioLength * AudioTimeBase) \div ScenarioAudioTicks,
            Wide(ScenarioAudioTicks), 1, 1)

ScenarioInit ==
    /\ pc = "args"
    /\ help = FALSE
    /\ start_sec = ScenarioStart
    /\ end_sec \in { ScenarioStart + Epsilon(f) : f \in ScenarioFrameTicks }
    /\ input_opened = FALSE
    /\ file_data = << >>
    /\ trak_boxes = << >>
    /\ trak_pos = 1
    /\ track_infos = << >>
    /\ muxer = NoMuxer
    /\ output_created = FALSE
    /\ output_file = << >>
    /\ current_offset = 0
    /\ sample_iterators = << >>
    /\ pairs = << >>
    /\ pair_pos = 1
    /\ wraps = FALSE
    /\ result = "running"
    /\ completion_printed = FALSE
    /\ events = << >>
    /\ emitted = << >>
    /\ IoIdle

\* the input file of the scenario, the tracks in either order
ReadScenario ==
    /\ pc = "validated"
    /\ input_opened' = TRUE
    /\ \E f \in ScenarioFrameTicks :
          /\ end_sec = ScenarioStart + Epsilon(f)
          /\ \E traks \in { << ScenarioVideo(f), ScenarioAudio >>,
                             << ScenarioAudio, ScenarioVideo(f) >> } :
                /\ trak_boxes' = LayOut(traks)
                /\ file_data' = SourceBytes(traks)
    /\ pc' = "windowing"
    /\ UNCHANGED << io_vars, help, start_sec, end_sec, trak_pos, track_infos, muxer,
                    output_created, output_file, current_offset,
                    sample_iterators, pairs, pair_pos, wraps, result,
                    completion_printed, events, emitted >>

ScenarioNext ==
    \/ Validate
    \/ OpenFails
    \/ ReadFails
    \/ ReadScenario
    \/ SampleTableFails
    \/ ResolveTrack
    \/ CreateMuxer
    \/ CreateOutput
    \/ WriteInitial
    \/ Interleave
    \/ Finalize
    \/ Patch
    \/ Complete

ScenarioSpec == ScenarioInit /\ [][ScenarioNext]_vars

-----------------------------------------------------------------------------
(* Input and output selection (src/src/io.rs). An Option<String> is None   *)
(* or << "Some", s >>; the results are the enum values, a File with its    *)
(* path.                                                                   *)

\* the argument strings the functions are applied to
ArgStrings == { "-", "", "--", "-o", "test.mp4", "output.mp4" }
Args == { None } \cup { << "Some", a >> : a \in ArgStrings }

Stdin == << "Stdin" >>
Stdout == << "Stdout" >>
File(path) == << "File", path >>

\* "-" selects stdin only when stdin is not a terminal
InputSource_from_arg_checks_dash(a, stdin_tty) ==
    IF a # None /\ a[2] = "-" /\ ~stdin_tty THEN << "Some", Stdin >>
    ELSE IF a # None THEN << "Some", File(a[2]) >>
    ELSE IF ~stdin_tty THEN << "Some", Stdin >>
    ELSE None

\* InputSource::from_arg (lines 24-38)
InputSource_from_arg(a, stdin_tty) ==
    IF a # None /\ a[2] = "-" THEN << "Some", Stdin >>
    ELSE IF a # None THEN << "Some", File(a[2]) >>
    ELSE IF ~stdin_tty THEN << "Some", Stdin >>
    ELSE None

\* allow_tty is ignored: a terminal is always refused
OutputSink_from_arg_ignores_allow(a, allow, stdout_tty) ==
    IF a # None /\ a[2] = "-"
    THEN IF stdout_tty THEN << "Err", "stdout_is_terminal" >>
         ELSE << "Ok", Stdout >>
    ELSE IF a # None THEN << "Ok", File(a[2]) >>
    ELSE IF stdout_tty THEN << "Err", "stdout_is_terminal_use_o" >>
    ELSE << "Ok", Stdout >>

\* OutputSink::from_arg (lines 74-96)
OutputSink_from_arg(a, allow, stdout_tty) ==
    IF a # None /\ a[2] = "-"
    THEN IF ~allow /\ stdout_tty THEN << "Err", "stdout_is_terminal" >>
         ELSE << "Ok", Stdout >>
    ELSE IF a # None THEN << "Ok", File(a[2]) >>
    ELSE IF ~allow /\ stdout_tty THEN << "Err", "stdout_is_terminal_use_o" >>
    ELSE << "Ok", Stdout >>

\* extract is not running
ExtractIdle ==
    /\ pc = "done"
    /\ help = FALSE
    /\ start_sec = 0
    /\ end_sec = 0
    /\ input_opened = FALSE
    /\ file_data = << >>
    /\ trak_boxes = << >>
    /\ trak_pos = 1
    /\ track_infos = << >>
    /\ muxer = NoMuxer
    /\ output_created = FALSE
    /\ output_file = << >>
    /\ current_offset = 0
    /\ sample_iterators = << >>
    /\ pairs = << >>
    /\ pair_pos = 1
    /\ wraps = FALSE
    /\ result = "running"
    /\ completion_printed = FALSE
    /\ events = << >>
    /\ emitted = << >>

extract_vars ==
    << pc, help, start_sec, end_sec, input_opened, file_data, trak_boxes,
       trak_pos, track_infos, muxer, output_created, output_file,
       current_offset, sample_iterators, pairs, pair_pos, wraps, result,
       completion_printed, events, emitted >>

IoInit ==
    /\ ExtractIdle
    /\ arg \in Args
    /\ allow_tty \in BOOLEAN
    /\ stdin_is_terminal \in BOOLEAN
    /\ stdout_is_terminal \in BOOLEAN
    /\ source = NotCalled
    /\ sink = NotCalled

CallInputSource ==
    /\ source = NotCalled
    /\ source' = InputSource_from_arg(arg, stdin_is_terminal)
    /\ UNCHANGED << extract_vars, arg, allow_tty, stdin_is_terminal,
                    stdout_is_terminal, sink >>

CallOutputSink ==
    /\ sink = NotCalled
    /\ sink' = OutputSink_from_arg(arg, allow_tty, stdout_is_terminal)
    /\ UNCHANGED << extract_vars, arg, allow_tty, stdin_is_terminal,
                    stdout_is_terminal, source >>

IoNext ==
    \/ CallInputSource
    \/ CallOutputSink

IoSpec == IoInit /\ [][IoNext]_vars

-----------------------------------------------------------------------------
(* The interleave loop at the full width of the sample index. Indices are  *)
(* NonZeroU32: here they are u32 values on limbs, the windows lie at       *)
(* either end of the index range, every sample of a track has the same     *)
(* duration and an empty payload.                                          *)

\* windows lie within this many indices of 1 or of u32::MAX
IndexSpan == 3
\* the loop is followed for at most this many samples
EmissionCap == MaxTracks * IndexSpan + 2

IndexValues ==
    { Wide(k) : k \in 1..IndexSpan }
        \cup { WideSub(U32Max, Wide(k)) : k \in 0..(IndexSpan - 1) }

\* << timescale, sample duration >> of the tracks
IndexClocks == { << 1, 1 >>, << 3, 2 >> }

\* the TrackExtractInfo of a resolved window: start <= end, both at the
\* same end of the index range
IndexWindows ==
    { [ track_kind         |-> "soun",
        timescale          |-> c[1],
        tick               |-> c[2],
        start_sample_index |-> w[1],
        end_sample_index   |-> w[2] ] :
      c \in IndexClocks,
      w \in { v \in IndexValues \X IndexValues :
                 /\ WideLeq(v[1], v[2])
                 /\ WideLess(WideSub(v[2], v[1]), Wide(IndexSpan)) } }

\* end_sample_index - start_sample_index + 1
window_size(info) ==
    WideSub(info.end_sample_index, info.start_sample_index)[1] + 1

\* timestamp of sample `index`: the equal durations before it
uniform_timestamp(info, index) ==
    WideMulSmall(WideSub(index, Wide(1)), info.tick)

\* NonZeroU32::saturating_add(1) (line 240)
saturating_add(index) ==
    IF index = U32Max THEN U32Max ELSE WideAdd(index, Wide(1))

\* line 187 on u32 indices
index_has_next(iters, infos, idx) ==
    WideLeq(iters[idx].current_index, infos[idx].end_sample_index)

index_normalized(iters, infos, idx) ==
    normalize_timestamp(
        WideSub(uniform_timestamp(infos[idx], iters[idx].current_index),
                iters[idx].base_timestamp),
        infos[idx].timescale)

RECURSIVE index_scan(_, _, _, _, _)
\* the for loop of lines 186-201 on u32 indices
index_scan(iters, infos, idx, next_track_idx, min_timestamp) ==
    IF idx > Len(iters) THEN << next_track_idx, min_timestamp >>
    ELSE IF index_has_next(iters, infos, idx)
         THEN LET normalized_timestamp == index_normalized(iters, infos, idx)
              IN  IF replaces_minimum(normalized_timestamp, min_timestamp)
                  THEN index_scan(iters, infos, idx + 1, idx,
                                  normalized_timestamp)
                  ELSE index_scan(iters, infos, idx + 1, next_track_idx,
                                  min_timestamp)
         ELSE index_scan(iters, infos, idx + 1, next_track_idx, min_timestamp)

\* the state after the initial boxes are written (line 178)
IndexInit ==
    /\ pc = "streaming"
    /\ help = FALSE
    /\ start_sec = 0
    /\ end_sec = HugeTime
    /\ input_opened = TRUE
    /\ file_data = << >>
    /\ trak_boxes = << >>
    /\ trak_pos = 1
    /\ track_infos \in UNION { [1..k -> IndexWindows] : k \in 1..MaxTracks }
    /\ muxer = [NoMuxer EXCEPT !.reserved =
                    estimate_maximum_moov_box_size(
                        [t \in 1..Len(track_infos) |->
                            window_size(track_infos[t])])]
    /\ output_created = TRUE
    /\ output_file = initial_boxes_bytes(muxer)
    /\ current_offset = Len(output_file)
    /\ sample_iterators =
           [t \in 1..Len(track_infos) |->
               [ current_index   |-> track_infos[t].start_sample_index,
                 base_timestamp  |->
                     uniform_timestamp(track_infos[t],
                                       track_infos[t].start_sample_index),
                 is_first_sample |-> TRUE ]]
    /\ pairs = << >>
    /\ pair_pos = 1
    /\ wraps = FALSE
    /\ result = "running"
    /\ completion_printed = FALSE
    /\ events = << "estimate", "with_options", "create", "write_initial" >>
    /\ emitted = << >>
    /\ IoIdle

\* one pass of the loop of lines 181-242 on u32 indices
IndexInterleave ==
    /\ pc = "streaming"
    /\ Len(emitted) < EmissionCap
    /\ LET sel == index_scan(sample_iterators, track_infos, 1, 0, U64Max)
           track_idx == sel[1]
           iter == sample_iterators[track_idx]
       IN  IF track_idx = 0
           THEN /\ pc' = "finalize"
                /\ UNCHANGED << muxer, sample_iterators, result, events,
                                emitted >>
           ELSE \/ /\ \E e \in {"err_write", "err_append_sample"} : Return(e)
                   /\ events' = Append(events, "write_sample")
                   /\ UNCHANGED << muxer, sample_iterators, emitted >>
                \/ /\ muxer' = [muxer EXCEPT !.samples =
                          Append(muxer.samples,
                                 [ track_kind  |-> track_infos[track_idx].track_kind,
                                   data_offset |-> current_offset,
                                   data_size   |-> 0 ])]
                   /\ sample_iterators' =
                          [sample_iterators EXCEPT ![track_idx] =
                              [iter EXCEPT
                                  !.current_index =
                                      saturating_add(iter.current_index),
                                  !.is_first_sample = FALSE]]
                   /\ events' = events \o << "write_sample", "append_sample" >>
                   /\ emitted' = Append(emitted,
                          [ track      |-> track_idx,
                            index      |-> iter.current_index,
                            normalized |-> sel[2] ])
                   /\ UNCHANGED << pc, result >>
    /\ UNCHANGED << io_vars, help, start_sec, end_sec, input_opened,
                    file_data, trak_boxes, trak_pos, track_infos,
                    output_created, output_file, current_offset, pairs,
                    pair_pos, wraps, completion_printed >>

IndexNext ==
    \/ IndexInterleave
    \/ Finalize
    \/ Patch
    \/ Complete

IndexSpec == IndexInit /\ [][IndexNext]_vars

-----------------------------------------------------------------------------
(* Properties.                                                             *)

Last(seq) == seq[Len(seq)]

\* the exact quotient floor(p / m) of a product on ProductLimbs limbs
FullDivSmall(p, m) == DivFrom(p, m, ProductLimbs, 0)

\* p < q on ProductLimbs limbs
FullLess(p, q) ==
    \E i \in 1..ProductLimbs :
        /\ p[i] < q[i]
        /\ \A j \in (i + 1)..ProductLimbs : p[j] = q[j]

\* emission k is the first of its cursor
IsFirstOfTrack(k) == \A j \in 1..(k - 1) : emitted[j].track # emitted[k].track

\* the mathematical normalized timestamp of emission e:
\* floor((timestamp - baseline) * 10^9 / time base), never wrapped
ExactNormalized(e) ==
    LET info == track_infos[e.track]
    IN  FullDivSmall(
            FullMulNanos(WideSub(timestamp(info.trak_box, e.index),
                                 info.start_timestamp)),
            info.timescale)

\* the sample the start time falls in, for a resolved track
FoundStart(info) ==
    get_sample_by_timestamp(info.trak_box,
                            seconds_to_ticks(start_sec, info.timescale))

\* C1: interleave ordering. Over the whole output, all tracks together, the
\* normalized timestamps (timestamp - track baseline) * 10^9 / time base of
\* the emitted samples never decrease.
C1_InterleaveOrdering ==
    \A k \in 1..(Len(emitted) - 1) :
        ~FullLess(ExactNormalized(emitted[k + 1]), ExactNormalized(emitted[k]))

\* C2: deterministic tie-break. The cursor selected in a step has the minimal
\* normalized timestamp among the cursors that had a next sample, and every
\* cursor registered before it was strictly later: on a tie the track
\* registered first is selected. (The cursors other than the selected one
\* are as the scan saw them.)
C2_TieBreakFirstRegistered ==
    emitted # << >> =>
        LET e == Last(emitted)
        IN  \A u \in (1..Len(sample_iterators)) \ {e.track} :
                has_next(sample_iterators, track_infos, u) =>
                    LET n == next_normalized(sample_iterators, track_infos, u)
                    IN  /\ ~WideLess(n, e.normalized)
                        /\ u < e.track => WideLess(e.normalized, n)

\* a sample was selected while a later-registered cursor had a next sample
\* with the same normalized timestamp
C2_Witness ==
    /\ emitted # << >>
    /\ \E u \in (Last(emitted).track + 1)..Len(sample_iterators) :
          /\ has_next(sample_iterators, track_infos, u)
          /\ next_normalized(sample_iterators, track_infos, u)
                 = Last(emitted).normalized

\* C3: a video track's first emitted sample is a sync sample (its record has
\* keyframe = TRUE), and the window of a video track starts at the nearest
\* sync sample at or before the sample found for the start time.
C3_VideoStartsOnKeyframe ==
    /\ \A k \in 1..Len(emitted) :
          (IsFirstOfTrack(k) /\ muxer.samples[k].track_kind = "vide")
              => muxer.samples[k].keyframe
    /\ \A t \in 1..Len(track_infos) :
          track_infos[t].track_kind = "vide" =>
              LET info == track_infos[t]
                  first == info.start_sample_index
              IN  /\ first <= FoundStart(info)
                  /\ info.trak_box.sync[first]
                  /\ \A i \in (first + 1)..FoundStart(info) :
                        ~info.trak_box.sync[i]

\* the first sample of a video track was emitted, from a start that was moved
\* back from a non-sync sample
C3_Witness ==
    \E k \in 1..Len(emitted) :
        /\ IsFirstOfTrack(k)
        /\ muxer.samples[k].track_kind = "vide"
        /\ emitted[k].index < FoundStart(track_infos[emitted[k].track])

\* the length of the initial boxes plus the sizes of the first k records
RECURSIVE OffsetAfter(_)
OffsetAfter(k) ==
    IF k = 0 THEN MuxerHeadLen + muxer.reserved
    ELSE OffsetAfter(k - 1) + muxer.samples[k].data_size

\* the initial boxes were written: the loop has been entered
InitialWritten == sample_iterators # << >>

OffsetMatchesSamples ==
    InitialWritten =>
        /\ current_offset = OffsetAfter(Len(muxer.samples))
        /\ \A k \in 1..Len(muxer.samples) :
              muxer.samples[k].data_offset = OffsetAfter(k - 1)
        /\ pc = "streaming" => Len(output_file) = current_offset

\* C4: running byte offset. Once the initial bytes are written, current_offset
\* is their length plus the sizes of the samples appended so far, each record
\* starts where the one before it ended (no gap, no overlap), the output file
\* ends at current_offset while streaming, and a step never decreases
\* current_offset and adds exactly data_size when it appends a sample.
C4_RunningOffset ==
    [][ /\ OffsetMatchesSamples'
        /\ current_offset' >= current_offset
        /\ (InitialWritten /\ Len(muxer'.samples) = Len(muxer.samples) + 1)
              => current_offset'
                   = current_offset + Last(muxer'.samples).data_size ]_vars

\* samples of different sizes, one of them empty, were written and the run
\* went on to the end
C4_Witness ==
    /\ result = "ok"
    /\ \E j, k \in 1..Len(muxer.samples) :
          /\ muxer.samples[j].data_size = 0
          /\ muxer.samples[k].data_size > 1
          /\ j < k

\* C5: each track attaches its sample entry once. The record of a track's
\* first emitted sample carries Some(sample_entry) of that track, every later
\* record of the track carries None, and a completed run has exactly one
\* record with a sample entry per extracted track.
C5_SampleEntryOnce ==
    /\ \A k \in 1..Len(emitted) :
          muxer.samples[k].sample_entry =
              IF IsFirstOfTrack(k)
              THEN << "Some", track_infos[emitted[k].track].sample_entry >>
              ELSE << "None" >>
    /\ result = "ok" =>
          \A t \in 1..Len(track_infos) :
              Cardinality({ k \in 1..Len(emitted) :
                              /\ emitted[k].track = t
                              /\ muxer.samples[k].sample_entry # << "None" >> })
                  = 1

\* two tracks were extracted to the end, with later samples of both
C5_Witness ==
    /\ result = "ok"
    /\ Len(track_infos) >= 2
    /\ \A t \in 1..Len(track_infos) :
          \E k \in 1..Len(emitted) :
              emitted[k].track = t /\ ~IsFirstOfTrack(k)

\* C6: no re-encoding. The bytes of the output at a record's data_offset are
\* the source file's bytes at the sample's data_offset, data_size of them, and
\* data_size is the sample's size in the source's sample table; while
\* streaming nothing else has been appended.
C6_PayloadCopiedVerbatim ==
    /\ \A k \in 1..Len(emitted) :
          LET rec == muxer.samples[k]
              trak == track_infos[emitted[k].track].trak_box
              source_offset == trak.offsets[emitted[k].index]
          IN  /\ rec.data_size = trak.sizes[emitted[k].index]
              /\ rec.data_offset + rec.data_size <= Len(output_file)
              /\ \A p \in 1..rec.data_size :
                    output_file[rec.data_offset + p]
                        = file_data[source_offset + p]
    /\ pc = "streaming" =>
          Len(output_file) = OffsetAfter(Len(muxer.samples))

\* a payload of two bytes or more was copied from the second track and the
\* file was patched
C6_Witness ==
    /\ result = "ok"
    /\ \E k \in 1..Len(emitted) :
          /\ emitted[k].track = 2
          /\ muxer.samples[k].data_size >= 2

\* the calls a run makes, in the order of run's phases
AllowedBefore(ev) ==
    CASE ev = "estimate"      -> { }
      [] ev = "with_options"  -> { "estimate" }
      [] ev = "create"        -> { "with_options" }
      [] ev = "write_initial" -> { "create" }
      [] ev = "write_sample"  -> { "write_initial", "append_sample" }
      [] ev = "append_sample" -> { "write_sample" }
      [] ev = "finalize"      -> { "append_sample" }
      [] ev = "seek"          -> { "finalize", "write_patch" }
      [] ev = "write_patch"   -> { "seek" }

\* C7: protocol phase order. The calls occur in the order sizing, muxer
\* creation with the estimated reservation, creation of the output, write of
\* the initial bytes, the samples (payload write, then append_sample), finalize,
\* the patches (seek, then write); nothing is written to the output before the
\* initial bytes, finalize is called only when every cursor is exhausted, and
\* pairs are patched only after finalize has returned them.
C7_PhaseOrder ==
    /\ \A i \in 1..Len(events) :
          IF i = 1 THEN events[i] = "estimate"
          ELSE events[i - 1] \in AllowedBefore(events[i])
    /\ pc \in {"create", "initial", "streaming", "finalize", "patching"} =>
          muxer.reserved
              = estimate_maximum_moov_box_size(sample_counts(track_infos))
    /\ output_file # << >> =>
          \E i \in 1..Len(events) : events[i] = "write_initial"
    /\ (\E i \in 1..Len(events) : events[i] = "finalize") =>
          \A idx \in 1..Len(sample_iterators) :
              ~has_next(sample_iterators, track_infos, idx)
    /\ (\E i \in 1..Len(events) : events[i] = "seek") => muxer.finalized

\* a run of two tracks went through every phase, with two patches
C7_Witness ==
    /\ result = "ok"
    /\ Len(track_infos) = 2
    /\ Len(muxer.samples) > 2
    /\ Len(pairs) = 2

ValidationErrors == { "err_start_negative", "err_end_not_after_start" }

\* C8: input validation. With start_sec < 0 or end_sec <= start_sec run
\* returns a validation error at once: the input file is never opened, the
\* output file is never created or written, and no call is made.
C8_ValidationBeforeIO ==
    (~help /\ (start_sec < 0 \/ end_sec <= start_sec)) =>
        /\ pc \in {"args", "done"}
        /\ pc = "done" => result \in ValidationErrors
        /\ ~input_opened
        /\ file_data = << >>
        /\ ~output_created
        /\ output_file = << >>
        /\ events = << >>

\* run has returned the validation error for an end equal to the start
C8_Witness ==
    /\ pc = "done"
    /\ result = "err_end_not_after_start"
    /\ end_sec = start_sec

WindowErrors ==
    { "err_no_sample_at_start", "err_no_preceding_keyframe",
      "err_no_sample_at_end" }

IsAudioOrVideo(trak) == trak.handler_type \in {"vide", "soun"}

\* C9: all-or-nothing windowing. When the window of any one audio or video
\* track of the file cannot be resolved, no output file is created and no
\* sample of any track is written or appended, also for the tracks resolved
\* before it; run returns the error when it reaches that track.
C9_AllOrNothingWindowing ==
    /\ result \in WindowErrors =>
          /\ pc = "done"
          /\ resolve_window(trak_boxes[trak_pos]).error = result
    /\ (\E j \in 1..Len(trak_boxes) :
            /\ IsAudioOrVideo(trak_boxes[j])
            /\ resolve_window(trak_boxes[j]).error # "none") =>
          /\ ~output_created
          /\ output_file = << >>
          /\ muxer.samples = << >>
          /\ events = << >>
          /\ result # "ok"

\* run returned a windowing error for the second track after the window of
\* the first was resolved
C9_Witness ==
    /\ result \in WindowErrors
    /\ Len(track_infos) = 1
    /\ pc = "done"

\* C10: a video track with a sample at the start time but no sync sample at or
\* before it stops the run with the no-preceding-keyframe error (unless its
\* sample table was already rejected): the loop never goes past that track, so
\* no window is made for it from a later sync sample or from the sample found.
C10_NoPrecedingKeyframe ==
    \A j \in 1..Len(trak_boxes) :
        LET trak == trak_boxes[j]
            found == get_sample_by_timestamp(
                         trak, seconds_to_ticks(start_sec, trak.timescale))
        IN  (/\ trak.handler_type = "vide"
             /\ found # 0
             /\ \A i \in 1..found : ~trak.sync[i]) =>
                /\ trak_pos <= j
                /\ Len(track_infos) < j
                /\ (pc = "done" /\ trak_pos = j) =>
                      result \in {"err_no_preceding_keyframe",
                                  "err_sample_table"}

\* the error was returned for a video track that has a sync sample after the
\* start
C10_Witness ==
    /\ result = "err_no_preceding_keyframe"
    /\ \E i \in 1..sample_count(trak_boxes[trak_pos]) :
          trak_boxes[trak_pos].sync[i]

\* the sample the end time falls in (0: none), for a resolved track
FoundEnd(info) ==
    get_sample_by_timestamp(info.trak_box,
                            seconds_to_ticks(end_sec, info.timescale))

\* C11: end clamping. For a resolved (hence non-empty) track, when a sample
\* covers the end tick the window ends at that sample; when none does, the
\* end being past the track, the window ends at the track's last sample
\* (sample_count) and no error is raised. The error for the end is returned
\* only for a track without samples.
C11_EndClamping ==
    /\ \A t \in 1..Len(track_infos) :
          LET info == track_infos[t]
          IN  info.end_sample_index =
                  IF FoundEnd(info) # 0 THEN FoundEnd(info)
                  ELSE sample_count(info.trak_box)
    /\ result = "err_no_sample_at_end" =>
          sample_count(trak_boxes[trak_pos]) = 0

\* a run went to the end with a window clamped to the last sample of a track
\* of several samples
C11_Witness ==
    /\ result = "ok"
    /\ \E t \in 1..Len(track_infos) :
          /\ FoundEnd(track_infos[t]) = 0
          /\ track_infos[t].end_sample_index > 1
          /\ track_infos[t].end_sample_index
                 = sample_count(track_infos[t].trak_box)

CountOf(seq, x) == Cardinality({ i \in 1..Len(seq) : seq[i] = x })

\* what run has returned is an Err or a panic
Failed == result \notin {"running", "ok", "help"}

\* every step of a run has succeeded
AllStepsSucceeded ==
    /\ validation_error(start_sec, end_sec) = "none"
    /\ input_opened
    /\ trak_pos > Len(trak_boxes)
    /\ track_infos # << >>
    /\ output_created
    /\ CountOf(events, "write_initial") = 1
    /\ \A idx \in 1..Len(sample_iterators) :
          ~has_next(sample_iterators, track_infos, idx)
    /\ CountOf(events, "write_sample") = Len(muxer.samples)
    /\ CountOf(events, "append_sample") = Len(muxer.samples)
    /\ muxer.finalized
    /\ CountOf(events, "finalize") = 1
    /\ pair_pos > Len(pairs)
    /\ CountOf(events, "seek") = Len(pairs)
    /\ CountOf(events, "write_patch") = Len(pairs)

\* C12: no false success. The completion message is printed exactly when run
\* returns Ok from its last line, and then every step has succeeded, each
\* done once; when a step fails run returns an error (or panics) without the
\* message. After run has returned nothing is done again (no retry), and the
\* output file, once created, is never deleted or shortened. (The Ok of help
\* mode is the result "help": no step has run, no message is printed.)
C12_NoFalseSuccess ==
    [][ /\ pc # "done"
        /\ completion_printed' <=> (result' = "ok")
        /\ result' = "ok" => AllStepsSucceeded'
        /\ Failed' => (pc' = "done" /\ ~completion_printed')
        /\ output_created => output_created'
        /\ Len(output_file') >= Len(output_file) ]_vars

\* the last patch write failed: the samples are in the file, the file is
\* kept, and the message is not printed
C12_Witness ==
    /\ result = "err_write"
    /\ muxer.finalized
    /\ pair_pos = Len(pairs)
    /\ Len(muxer.samples) > 1
    /\ Len(output_file) >= current_offset
    /\ ~completion_printed

\* the extracted track of a kind (scenario A has one of each)
TrackOf(kind) ==
    CHOOSE t \in 1..Len(track_infos) : track_infos[t].track_kind = kind

\* the sample indices emitted for cursor t
EmittedOf(t) ==
    { emitted[k].index : k \in { j \in 1..Len(emitted) : emitted[j].track = t } }

\* the samples of a track whose time span [timestamp, timestamp + duration)
\* meets the requested span [start_sec, end_sec]
Covering(info) ==
    LET trak == info.trak_box
        from == seconds_to_ticks(start_sec, info.timescale)
        to == seconds_to_ticks(end_sec, info.timescale)
    IN  { i \in 1..sample_count(trak) :
            /\ WideLeq(timestamp(trak, i), to)
            /\ WideLess(from, WideAdd(timestamp(trak, i), trak.durations[i])) }

\* the emissions of video samples with a timestamp at or before tick 300000
\* (10.0 s on the video time base)
EarlyVideo ==
    { k \in 1..Len(emitted) :
        /\ emitted[k].track = TrackOf("vide")
        /\ WideLeq(timestamp(track_infos[emitted[k].track].trak_box,
                             emitted[k].index),
                   Wide(10 * VideoTimeBase)) }

\* C13 as stated: in scenario A the output has exactly one video sample at or
\* before tick 300000, which is the first emitted video sample and a sync
\* sample, and the audio samples are those covering the requested span.
C13_ScenarioA_OneEarlySample ==
    result = "ok" =>
        /\ Cardinality(EarlyVideo) = 1
        /\ \A k \in EarlyVideo : IsFirstOfTrack(k) /\ muxer.samples[k].keyframe
        /\ EmittedOf(TrackOf("soun")) = Covering(track_infos[TrackOf("soun")])

\* C13, amended: in scenario A the video samples of the output are those from
\* the nearest sync sample at or before the sample covering tick 300000
\* through the sample covering the end tick. The first emitted video sample is
\* that sync sample, its timestamp is at or before tick 300000, and it is the
\* only emitted sync sample at or before tick 300000 (the samples between it
\* and tick 300000 are emitted too). The audio samples of the output are those
\* covering the requested span.
C13_ScenarioA_FromKeyframe ==
    result = "ok" =>
        LET v == TrackOf("vide")
            trak == track_infos[v].trak_box
            first == CHOOSE i \in EmittedOf(v) : \A j \in EmittedOf(v) : i <= j
            covered == Covering(track_infos[v])
            last == CHOOSE i \in covered : \A j \in covered : j <= i
        IN  /\ covered # { }
            /\ EmittedOf(v) = first..last
            /\ covered \subseteq EmittedOf(v)
            /\ trak.sync[first]
            /\ \A i \in (first + 1)..last :
                   (\A c \in covered : i <= c) => ~trak.sync[i]
            /\ \A k \in EarlyVideo :
                   IF IsFirstOfTrack(k)
                   THEN emitted[k].index = first /\ muxer.samples[k].keyframe
                   ELSE ~muxer.samples[k].keyframe
            /\ \E k \in EarlyVideo : IsFirstOfTrack(k)
            /\ EmittedOf(TrackOf("soun"))
                   = Covering(track_infos[TrackOf("soun")])

\* scenario A went to the end with a video start moved back to a sync
\* sample: several video samples lie at or before tick 300000
C13_Witness ==
    /\ result = "ok"
    /\ Cardinality(EarlyVideo) > 1
    /\ Cardinality(EmittedOf(TrackOf("soun"))) > 1

\* C14: InputSource::from_arg. Some("-") yields Some(Stdin) and Some(path),
\* path other than "-", yields Some(File(path)) with the same path, whether
\* or not stdin is a terminal; for None the result is Some(Stdin) when stdin
\* is not a terminal and None when it is.
C14_InputSourceFromArg ==
    source # NotCalled =>
        /\ arg = << "Some", "-" >> => source = << "Some", << "Stdin" >> >>
        /\ \A path \in ArgStrings \ { "-" } :
              arg = << "Some", path >> =>
                  source = << "Some", << "File", path >> >>
        /\ arg = None =>
              /\ ~stdin_is_terminal => source = << "Some", << "Stdin" >> >>
              /\ stdin_is_terminal => source = None

\* from_arg has returned Stdin for "-" with stdin a terminal
C14_Witness ==
    /\ arg = << "Some", "-" >>
    /\ stdin_is_terminal
    /\ source = << "Some", << "Stdin" >> >>

\* C15: OutputSink::from_arg. Some(path), path other than "-", yields
\* Ok(File(path)) for either allow_tty and any terminal state; Some("-") and
\* None yield Ok(Stdout), except that they yield an error when allow_tty is
\* false and stdout is a terminal.
C15_OutputSinkFromArg ==
    sink # NotCalled =>
        /\ \A path \in ArgStrings \ { "-" } :
              arg = << "Some", path >> => sink = << "Ok", << "File", path >> >>
        /\ arg \in { None, << "Some", "-" >> } =>
              IF ~allow_tty /\ stdout_is_terminal
              THEN sink[1] = "Err"
              ELSE sink = << "Ok", << "Stdout" >> >>

\* from_arg has returned Stdout for "-" with stdout a terminal, allow_tty set
C15_Witness ==
    /\ arg = << "Some", "-" >>
    /\ allow_tty
    /\ stdout_is_terminal
    /\ sink = << "Ok", << "Stdout" >> >>

\* the emissions made for cursor t
EmissionsOf(t) == Cardinality({ k \in 1..Len(emitted) : emitted[k].track = t })

\* C16: termination. For resolved windows with start_index <= end_index
\* anywhere in the 32-bit index range, every pass of the loop that does not
\* exit advances the selected cursor by one, so a track is emitted at most
\* end_index - start_index + 1 times, and when the loop has exited every
\* track has been emitted exactly that many times.
C16_LoopEmitsEachWindowOnce ==
    /\ \A t \in 1..Len(track_infos) :
          EmissionsOf(t) <= window_size(track_infos[t])
    /\ pc \in {"finalize", "patching"} =>
          \A t \in 1..Len(track_infos) :
              EmissionsOf(t) = window_size(track_infos[t])

\* finalize has been called
FinalizeReached == CountOf(events, "finalize") > 0

\* C17: sizing matches streaming. In a run that reaches finalize, the count
\* given to the size estimator for each track, end_index - start_index + 1,
\* is the number of samples of that track appended to the muxer, and the
\* reservation is the estimate for exactly those counts; the reservation is
\* made before any sample is appended.
C17_SizingMatchesStreaming ==
    /\ FinalizeReached =>
          /\ Len(muxer.samples) = Len(emitted)
          /\ \A t \in 1..Len(track_infos) :
                /\ EmissionsOf(t)
                       = track_infos[t].end_sample_index
                           - track_infos[t].start_sample_index + 1
                /\ EmissionsOf(t) =
                       Cardinality({ k \in 1..Len(muxer.samples) :
                                       emitted[k].track = t })
          /\ muxer.reserved =
                 estimate_maximum_moov_box_size(
                     [t \in 1..Len(track_infos) |-> EmissionsOf(t)])
    /\ muxer.samples # << >> => muxer.reserved > 0

\* finalize was reached with two tracks of different sample counts
C17_Witness ==
    /\ FinalizeReached
    /\ Len(track_infos) = 2
    /\ EmissionsOf(1) > EmissionsOf(2)
    /\ EmissionsOf(2) > 1

\* C18: window invariant. Every window that window resolution produces
\* satisfies 1 <= start_index <= end_index <= sample_count, also a video
\* window moved back to a sync sample and a window whose end was clamped, so
\* end_index - start_index + 1 is positive.
C18_WindowInvariant ==
    \A t \in 1..Len(track_infos) :
        LET info == track_infos[t]
        IN  /\ 1 <= info.start_sample_index
            /\ info.start_sample_index <= info.end_sample_index
            /\ info.end_sample_index <= sample_count(info.trak_box)
            /\ sample_counts(track_infos)[t] >= 1

\* a video window that was moved back to a sync sample and clamped at the end
C18_Witness ==
    \E t \in 1..Len(track_infos) :
        /\ track_infos[t].track_kind = "vide"
        /\ track_infos[t].start_sample_index < FoundStart(track_infos[t])
        /\ FoundEnd(track_infos[t]) = 0
        /\ track_infos[t].end_sample_index > track_infos[t].start_sample_index

\* the cursors changed by a step
ChangedCursors ==
    { t \in 1..Len(sample_iterators) :
        sample_iterators'[t] # sample_iterators[t] }

\* C19: cursor monotonicity and exclusion. In every step of the loop no
\* cursor's current_index decreases, at most one cursor changes, and the one
\* that changes is the selected cursor, which had a next sample and whose
\* sample is the one read; an exhausted cursor (current_index > end_index)
\* stays as it is and is not selected, so it is never selected again.
C19_CursorMonotone ==
    [][ (sample_iterators # << >>
            /\ Len(sample_iterators') = Len(sample_iterators)) =>
          /\ \A t \in 1..Len(sample_iterators) :
                sample_iterators'[t].current_index
                    >= sample_iterators[t].current_index
          /\ Cardinality(ChangedCursors) <= 1
          /\ \A t \in ChangedCursors :
                /\ has_next(sample_iterators, track_infos, t)
                /\ Len(emitted') = Len(emitted) + 1
                /\ Last(emitted').track = t
                /\ Last(emitted').index = sample_iterators[t].current_index
          /\ Len(emitted') > Len(emitted) =>
                /\ Last(emitted').track \in ChangedCursors
                /\ has_next(sample_iterators, track_infos,
                            Last(emitted').track)
          /\ \A t \in 1..Len(sample_iterators) :
                ~has_next(sample_iterators, track_infos, t) =>
                    ~has_next(sample_iterators', track_infos', t) ]_vars

\* a sample was emitted for one cursor while the other was exhausted
C19_Witness ==
    /\ emitted # << >>
    /\ pc = "streaming"
    /\ \E t \in 1..Len(sample_iterators) :
          /\ t # Last(emitted).track
          /\ ~has_next(sample_iterators, track_infos, t)
          /\ \E k \in 1..(Len(emitted) - 1) : emitted[k].track = t
    /\ sample_iterators[Last(emitted).track].current_index
           = Last(emitted).index + 1

\* a 64-bit value on ProductLimbs limbs
Widen(a) == [i \in 1..ProductLimbs |-> IF i <= LimbCount THEN a[i] ELSE 0]

\* C20: normalized timestamp. The value the scheduler compared for a sample
\* is the exact floor((timestamp - baseline) * 1_000_000_000 / time base),
\* the baseline being the timestamp of the track's first included sample
\* (the multiplication gives the mathematical product); the first emitted
\* sample of each track has the value 0.
C20_NormalizedIsExact ==
    \A k \in 1..Len(emitted) :
        /\ Widen(emitted[k].normalized) = ExactNormalized(emitted[k])
        /\ IsFirstOfTrack(k) => emitted[k].normalized = WideZero

\* whether sample s of the trak covers the tick of a requested time sec
\* (in 1/SecDen seconds), the tick being floor(sec * timescale + bias / 2)
\* in exact arithmetic: bias 0 truncates the product, bias 1 rounds it to
\* the nearest tick. With lo and hi the sample's first tick and the tick
\* after its last, lo <= tick < hi is compared after scaling by 2 * SecDen.
CoversTick(trak, s, sec, bias) ==
    LET product == WideMulSmall(Wide(sec), trak.timescale)
        scaled == WideAdd(WideMulSmall(product, 2), Wide(bias * SecDen))
        lo == timestamp(trak, s)
        hi == WideAdd(lo, trak.durations[s])
    IN  /\ WideLeq(WideMulSmall(lo, 2 * SecDen), scaled)
        /\ WideLess(scaled, WideMulSmall(hi, 2 * SecDen))

\* the lookups of the run were made with the ticks of the given bias: the
\* start sample of an audio window covers the start tick, a video window
\* starts at the sync sample at or before the sample that covers it, the end
\* sample covers the end tick or no sample does and the window ends at the
\* last sample, and the start error is returned only when no sample covers
\* the start tick
LookupsUse(bias) ==
    /\ \A t \in 1..Len(track_infos) :
          LET info == track_infos[t]
              trak == info.trak_box
              first == info.start_sample_index
              last == info.end_sample_index
          IN  /\ info.track_kind = "soun" =>
                     CoversTick(trak, first, start_sec, bias)
              /\ info.track_kind = "vide" =>
                     \E s \in first..sample_count(trak) :
                         /\ CoversTick(trak, s, start_sec, bias)
                         /\ \A i \in (first + 1)..s : ~trak.sync[i]
              /\ \/ CoversTick(trak, last, end_sec, bias)
                 \/ /\ last = sample_count(trak)
                    /\ \A s \in 1..sample_count(trak) :
                          ~CoversTick(trak, s, end_sec, bias)
    /\ result = "err_no_sample_at_start" =>
          \A s \in 1..sample_count(trak_boxes[trak_pos]) :
              ~CoversTick(trak_boxes[trak_pos], s, start_sec, bias)

\* C21 as stated: the ticks used for the sample lookups are the products
\* start_sec * ts and end_sec * ts rounded to the nearest integer tick.
C21_TicksRounded == LookupsUse(1)

\* C21: tick conversion. For every track time base ts and every valid
\* start_sec and end_sec, the ticks used for the sample lookups are
\* floor(start_sec * ts) and floor(end_sec * ts): the product truncated
\* toward zero to an integer tick.
C21_TicksTruncated == LookupsUse(0)

\* a run went to the end for an audio track whose requested start is not a
\* whole number of ticks, the truncated and the rounded tick falling in
\* different samples
C21_Witness ==
    /\ result = "ok"
    /\ \E t \in 1..Len(track_infos) :
          LET info == track_infos[t]
          IN  /\ info.track_kind = "soun"
              /\ (start_sec * info.timescale) % SecDen # 0
              /\ CoversTick(info.trak_box, info.start_sample_index,
                            start_sec, 0)
              /\ ~CoversTick(info.trak_box, info.start_sample_index,
                             start_sec, 1)


\* the size, in the source's sample table, of the k-th sample of the
\* emission sequence em
EmittedSize(em, k) == track_infos[em[k].track].trak_box.sizes[em[k].index]

\* the length of the initial bytes plus the sizes of the k-1 samples emitted
\* before the k-th
RECURSIVE LayoutPosition(_, _)
LayoutPosition(em, k) ==
    IF k = 1 THEN Len(initial_boxes_bytes(muxer))
    ELSE LayoutPosition(em, k - 1) + EmittedSize(em, k - 1)

\* C22: metadata offsets match the written layout. In the step that emits
\* the k-th sample, the data_offset of the record appended to the muxer is
\* the value current_offset had before the step (before it is advanced), is
\* the length of the output file before the step, i.e. the position at which
\* the payload is written (the file grows by exactly data_size), and equals
\* the initial-bytes length plus the sizes of the k-1 samples emitted before;
\* the records appended earlier are left as they were.
C22_OffsetsMatchLayout ==
    [][ Len(muxer'.samples) = Len(muxer.samples) + 1 =>
          LET k == Len(muxer'.samples)
              rec == muxer'.samples[k]
          IN  /\ Len(emitted') = k
              /\ rec.data_offset = current_offset
              /\ rec.data_offset = Len(output_file)
              /\ Len(output_file') = rec.data_offset + rec.data_size
              /\ SubSeq(output_file', 1, Len(output_file)) = output_file
              /\ rec.data_size = EmittedSize(emitted', k)
              /\ rec.data_offset = LayoutPosition(emitted', k)
              /\ SubSeq(muxer'.samples, 1, k - 1) = muxer.samples ]_vars

\* the third or a later sample was emitted, after samples of another track
\* and payloads that are not empty, and it has a payload itself
C22_Witness ==
    /\ Len(emitted) >= 3
    /\ Len(muxer.samples) = Len(emitted)
    /\ Last(muxer.samples).data_size > 0
    /\ Last(muxer.samples).data_offset > Len(initial_boxes_bytes(muxer)) + 1
    /\ \E j \in 1..(Len(emitted) - 1) :
          emitted[j].track # Last(emitted).track


\* the sample indices emitted for cursor t, in the order of emission
IndicesOf(t) ==
    LET OfTrack(e) == e.track = t
        own == SelectSeq(emitted, OfTrack)
    IN  [k \in 1..Len(own) |-> own[k].index]

\* the indices of a window, in increasing order
WindowIndices(info) ==
    [k \in 1..(info.end_sample_index - info.start_sample_index + 1) |->
        info.start_sample_index + k - 1]

\* C23: per-track completeness. In a run that has reached finalize, the
\* samples emitted for each extracted track, in the order of emission, are
\* exactly start_index, start_index + 1, ..., end_index of its window (none
\* skipped, repeated or out of order, whatever the interleaving with the
\* other tracks); every emitted sample belongs to an extracted track, the
\* extracted tracks are the video and audio trak boxes of the file in their
\* order, and so a trak box that is neither video nor audio emits nothing.
C23_PerTrackCompleteness ==
    FinalizeReached =>
        /\ \A t \in 1..Len(track_infos) :
              IndicesOf(t) = WindowIndices(track_infos[t])
        /\ \A k \in 1..Len(emitted) :
              /\ emitted[k].track \in 1..Len(track_infos)
              /\ track_infos[emitted[k].track].track_kind \in {"vide", "soun"}
        /\ [t \in 1..Len(track_infos) |-> track_infos[t].trak_box]
               = SelectSeq(trak_boxes, IsAudioOrVideo)

\* finalize was reached for two extracted tracks of several samples each
\* whose samples alternate in the output
C23_Witness ==
    /\ FinalizeReached
    /\ Len(track_infos) = 2
    /\ \A t \in 1..2 : Len(IndicesOf(t)) >= 2
    /\ \E k \in 2..(Len(emitted) - 1) :
          /\ emitted[k].track # emitted[k - 1].track
          /\ emitted[k].track # emitted[k + 1].track


=============================================================================
